---- MODULE Spec2Model ----
(***************************************************************************)
(* Model of the finite-state-machine runtime of src/fsm.py and             *)
(* src/state.py: the transition table (FSM, FinalStetesFSM), the bounded   *)
(* history (FSMHistory), the single-slot store (SimpleStateContainer) and  *)
(* the step handlers (handle and async_handle of FSMHandler and of          *)
(* FinalStetesFSMHandler).  Spec drives the synchronous handlers from        *)
(* construction, SpecState the State constructor, SpecAsync calls of        *)
(* handle and async_handle that interleave at the awaits, and SpecKeyed     *)
(* FSMHandler.handle over a store keyed by entity.                          *)
(*                                                                         *)
(* A State object is identified by its name.  Python's None is the string  *)
(* "None"; an exception is named by its Python class.                      *)
(***************************************************************************)
EXTENDS Integers, Sequences, FiniteSets, TLC

\* ------------------------------------------------------------------ bounds
\* operations (steps and direct appends) driven after construction
MaxSteps == 3
\* largest maximum size a history is configured with
MaxSize == 2
\* State objects constructed in a run of the State constructor
MaxBuilt == 2
\* calls of handle and async_handle made while calls may be suspended
MaxCalls == 2

\* --------------------------------------------------------------- universe
None == "None"
\* FSMHistory(machine, size=None): no maximum configured
NoSize == -1

\* the State objects the application builds; "ghost" is never put in states
StateNames == {"idle", "awaiting", "done"}
Ghost == "ghost"

\* the context values the states' getcontext may produce
Contexts == {"start", "confirm", "cancel"}
OtherContext == "other"
AnyContext == Contexts \cup {OtherContext}

\* the arguments of the application's own FSMHistory.append calls: a context
\* of the table or not, a State of the table or not
AppendContexts == {"start", OtherContext}
AppendStates == {"done", Ghost}

\* the (row, context, target) entries a transitions argument is built from:
\* the three of the idle/awaiting/done table, and three more (a row for the
\* state done, a target and a row key that name no state of the table)
ScenarioEntries ==
    { <<"idle", "start", "awaiting">>,
      <<"awaiting", "confirm", "done">>,
      <<"awaiting", "cancel", "idle">> }

ExtraEntries ==
    { <<"done", "start", "idle">>,
      <<"idle", "cancel", Ghost>>,
      <<Ghost, "start", "idle">> }

\* the dict[str, dict[Context, str]] holding exactly the entries of T
DictOf(T) ==
    [r \in {t[1] : t \in T} |->
        [c \in {t[2] : t \in {u \in T : u[1] = r}} |->
            (CHOOSE t \in T : t[1] = r /\ t[2] = c)[3]]]

EmptyDict == DictOf({})

\* a transitions attribute or argument: None, or a dict
NoneTransitions == [isNone |-> TRUE, rows |-> EmptyDict]
SomeTransitions(T) == [isNone |-> FALSE, rows |-> DictOf(T)]
TransitionsArgs ==
    {NoneTransitions, SomeTransitions({})}
        \cup {SomeTransitions(ScenarioEntries \cup X) : X \in SUBSET ExtraEntries}

\* a final_states argument: None, or a list of State objects (by name)
NoneFinals == [isNone |-> TRUE, names |-> {}]
SomeFinals(F) == [isNone |-> FALSE, names |-> F]
FinalsArgs == {NoneFinals, SomeFinals({"done"}), SomeFinals({"done", Ghost})}

\* every state name a transitions dict uses, as a row key or as a target
NamesUsed(rows) ==
    DOMAIN rows \cup {rows[r][c] : <<r, c>> \in {<<r2, c2>> \in (DOMAIN rows) \X AnyContext : c2 \in DOMAIN rows[r2]}}

\* ------------------------------------------------------- transition table
\* FSM.__init__: states becomes a dict keyed by name; transitions starts as
\* {} and the subset test is made on that attribute before it is assigned
FSM_init(transitions, states) ==
    LET self_states == states
        self_transitions == EmptyDict
    IN  IF transitions.isNone
        THEN [raised |-> FALSE, kind |-> "FSM", states |-> self_states,
              transitions |-> SomeTransitions({}), final_states |-> {}]
        ELSE IF DOMAIN self_transitions \subseteq self_states
             THEN [raised |-> FALSE, kind |-> "FSM", states |-> self_states,
                   transitions |-> transitions, final_states |-> {}]
             ELSE [raised |-> TRUE, kind |-> "FSM", states |-> {},
                   transitions |-> SomeTransitions({}), final_states |-> {}]

\* FinalStetesFSM.__init__: FSM.__init__, then final_states starts as {} and
\* the subset test is made on that attribute; the branch re-assigns
\* transitions from the argument before final_states is filled
FinalStetesFSM_init(transitions, states, final_states) ==
    LET base == FSM_init(transitions, states)
        self_final_states == {}
    IN  IF base.raised
        THEN [base EXCEPT !.kind = "FinalStetesFSM"]
        ELSE IF final_states.isNone
             THEN [base EXCEPT !.kind = "FinalStetesFSM", !.final_states = self_final_states]
             ELSE IF self_final_states \subseteq base.states
                  THEN [base EXCEPT !.kind = "FinalStetesFSM",
                                    !.transitions = transitions,
                                    !.final_states = final_states.names]
                  ELSE [base EXCEPT !.kind = "FinalStetesFSM", !.raised = TRUE]

\* FSM.isstate
isstate(m, name) == name \in m.states

\* FinalStetesFSM.isfinalstate
isfinalstate(m, name) == name \in m.final_states

\* FSM.getnextstate as it would be if it returned the name the transitions
\* dict holds without the subscript on states
getnextstate_NoStatesLookup(m, state, context) ==
    IF m.transitions.isNone
    THEN [err |-> "TypeError", state |-> None]
    ELSE IF state \notin DOMAIN m.transitions.rows
    THEN [err |-> "KeyError", state |-> None]
    ELSE IF context \notin DOMAIN m.transitions.rows[state]
    THEN [err |-> "KeyError", state |-> None]
    ELSE [err |-> "ok", state |-> m.transitions.rows[state][context]]

\* FSM.getnextstate: self.states[self.transitions[state][context]]; each of
\* the three subscripts can fail
getnextstate(m, state, context) ==
    IF m.transitions.isNone
    THEN [err |-> "TypeError", state |-> None]
    ELSE IF state \notin DOMAIN m.transitions.rows
    THEN [err |-> "KeyError", state |-> None]
    ELSE IF context \notin DOMAIN m.transitions.rows[state]
    THEN [err |-> "KeyError", state |-> None]
    ELSE IF m.transitions.rows[state][context] \notin m.states
    THEN [err |-> "KeyError", state |-> None]
    ELSE [err |-> "ok", state |-> m.transitions.rows[state][context]]

\* ----------------------------------------------------------------- history
Record(context, state) == [context |-> context, state |-> state]

\* FSMHistory.__init__
FSMHistory_init(size) == [bound |-> TRUE, size |-> size, items |-> <<>>]

\* a handler constructed with history=None
NoHistory == [bound |-> FALSE, size |-> NoSize, items |-> <<>>]

\* FSMHistory.append as it would be with pop() in place of pop(0): the
\* newest record is the one removed
append_PopsNewest(m, h, context, state) ==
    IF state = None
    THEN [err |-> "AttributeError", items |-> h.items, added |-> <<>>]
    ELSE IF ~isstate(m, state)
    THEN [err |-> "Exception", items |-> h.items, added |-> <<>>]
    ELSE IF m.transitions.isNone
    THEN [err |-> "AttributeError", items |-> h.items, added |-> <<>>]
    ELSE IF ~(\E r \in DOMAIN m.transitions.rows : context \in DOMAIN m.transitions.rows[r])
    THEN [err |-> "Exception", items |-> h.items, added |-> <<>>]
    ELSE LET appended_items == Append(h.items, Record(context, state))
         IN  IF h.size # NoSize /\ Len(appended_items) > h.size
             THEN [err |-> "ok", items |-> SubSeq(appended_items, 1, Len(appended_items) - 1),
                   added |-> <<Record(context, state)>>]
             ELSE [err |-> "ok", items |-> appended_items, added |-> <<Record(context, state)>>]

\* FSMHistory.append: the two checks, then list.append, then pop(0) when the
\* configured size is exceeded; added is what list.append was given
append(m, h, context, state) ==
    IF state = None
    THEN [err |-> "AttributeError", items |-> h.items, added |-> <<>>]
    ELSE IF ~isstate(m, state)
    THEN [err |-> "Exception", items |-> h.items, added |-> <<>>]
    ELSE IF m.transitions.isNone
    THEN [err |-> "AttributeError", items |-> h.items, added |-> <<>>]
    ELSE IF ~(\E r \in DOMAIN m.transitions.rows : context \in DOMAIN m.transitions.rows[r])
    THEN [err |-> "Exception", items |-> h.items, added |-> <<>>]
    ELSE LET appended_items == Append(h.items, Record(context, state))
         IN  IF h.size # NoSize /\ Len(appended_items) > h.size
             THEN [err |-> "ok", items |-> Tail(appended_items), added |-> <<Record(context, state)>>]
             ELSE [err |-> "ok", items |-> appended_items, added |-> <<Record(context, state)>>]

\* FSMHistory.get_state_sequence, before the join
get_state_sequence(h) == [i \in 1..Len(h.items) |-> h.items[i].state]

\* ------------------------------------------------------------------- store
\* SimpleStateContainer.__init__
SimpleStateContainer_init(start_state) == start_state

\* SimpleStateContainer.get_state
get_state(st) == st

\* SimpleStateContainer.set_state
set_state(st, state) == state

\* ----------------------------------------------------------------- handler
\* the value the action of state cur returns
ActionResult(cur) == <<"result", cur>>

\* what one call of a handler did: the store and history items it leaves,
\* the calls it made in order, the arguments of its set_state and callback
\* calls, the records it added to the history, the exception that left it
\* ("ok": it returned) and its return value
Outcome(st, items, calls, set_args, added, err, ret) ==
    [store |-> st, items |-> items, calls |-> calls, set_args |-> set_args,
     cbk_args |-> <<>>, added |-> added, err |-> err, ret |-> ret]

\* a return value: None, the action's result, or the pair
\* (callback result, step result)
ReturnNone == [tuple |-> FALSE, cbk |-> <<>>, res |-> <<>>]
ReturnRes(res) == [tuple |-> FALSE, cbk |-> <<>>, res |-> res]
ReturnPair(cbk, res) == [tuple |-> TRUE, cbk |-> cbk, res |-> res]

\* the value final_state_callback returns for (context, state)
CallbackResult(context, state) == <<"callback", context, state>>

\* FSMHandler.handle after the entering check: the action, the transition
\* check, then either the sentinel append or the lookup, set_state and append
Entered(m, st, h, tc, context) ==
    LET cur_state == get_state(st)
        c2 == <<"get_state", "entering_condition", "action", "transition_condition">>
        c3 == c2 \o <<"getcontext", "getnextstate">>
        c4 == c3 \o <<"set_state">>
        res == ActionResult(cur_state)
    IN  IF ~tc
        THEN IF h.bound
             THEN LET a == append(m, h, None, None)
                  IN  Outcome(st, a.items, c2 \o <<"append">>, <<>>, a.added, a.err,
                              IF a.err = "ok" THEN ReturnRes(res) ELSE ReturnNone)
             ELSE Outcome(st, h.items, c2, <<>>, <<>>, "ok", ReturnRes(res))
        ELSE LET n == getnextstate(m, cur_state, context)
             IN  IF n.err # "ok"
                 THEN Outcome(st, h.items, c3, <<>>, <<>>, n.err, ReturnNone)
                 ELSE LET new_store == set_state(st, n.state)
                      IN  IF h.bound
                          THEN LET a == append(m, h, context, n.state)
                               IN  Outcome(new_store, a.items, c4 \o <<"append">>, <<n.state>>,
                                           a.added, a.err,
                                           IF a.err = "ok" THEN ReturnRes(res) ELSE ReturnNone)
                          ELSE Outcome(new_store, h.items, c4, <<n.state>>, <<>>, "ok", ReturnRes(res))

\* FSMHandler.handle as it would be without the early return on a false
\* entering_condition
FSMHandler_handle_NoEarlyReturn(m, st, h, ec, tc, context) ==
    Entered(m, st, h, tc, context)

\* FSMHandler.handle with the current state's entering_condition returning
\* ec, its transition_condition returning tc and its getcontext returning
\* context
FSMHandler_handle(m, st, h, ec, tc, context) ==
    IF ~ec
    THEN Outcome(st, h.items, <<"get_state", "entering_condition">>, <<>>, <<>>, "ok", ReturnNone)
    ELSE Entered(m, st, h, tc, context)

\* FinalStetesFSMHandler.__init__: a handler given no history makes its own
\* single-slot one
FinalStetesFSMHandler_init(h) == IF h.bound THEN h ELSE FSMHistory_init(1)

\* FinalStetesFSMHandler.handle after the plain step s returned: the last
\* record of the history decides whether the callback runs
Dispatch(m, s) ==
    IF Len(s.items) = 0
    THEN [s EXCEPT !.err = "IndexError", !.ret = ReturnNone]
    ELSE LET record == s.items[Len(s.items)]
         IN  IF record.state = None
             THEN [s EXCEPT !.err = "AttributeError", !.ret = ReturnNone]
             ELSE IF ~isfinalstate(m, record.state)
             THEN [s EXCEPT !.calls = @ \o <<"isfinalstate">>]
             ELSE [s EXCEPT !.calls = @ \o <<"isfinalstate", "final_state_callback">>,
                            !.cbk_args = <<record>>,
                            !.ret = ReturnPair(CallbackResult(record.context, record.state), s.ret.res)]

\* FinalStetesFSMHandler.handle as it would be if a current state that is
\* final ended the call before the step
FinalStetesFSMHandler_handle_HaltsOnFinal(m, st, h, ec, tc, context) ==
    IF isfinalstate(m, get_state(st))
    THEN Outcome(st, h.items, <<"get_state", "isfinalstate">>, <<>>, <<>>, "ok", ReturnNone)
    ELSE LET s == FSMHandler_handle(m, st, h, ec, tc, context)
         IN  IF s.err # "ok" THEN s ELSE Dispatch(m, s)

\* FinalStetesFSMHandler.handle: the plain step; an exception leaves the
\* call, a return goes on to the dispatch
FinalStetesFSMHandler_handle(m, st, h, ec, tc, context) ==
    LET s == FSMHandler_handle(m, st, h, ec, tc, context)
    IN  IF s.err # "ok" THEN s ELSE Dispatch(m, s)

\* ------------------------------------------------------------------- state
VARIABLES
    pc,          \* "new", then "built" or "failed" (the constructor raised), then "run"
    args,        \* the arguments the table was constructed from
    machine,     \* the FSM / FinalStetesFSM instance
    handler,     \* class of the handler: "none", "FSMHandler", "FinalStetesFSMHandler"
    start_state, \* the State the store was seeded with
    store,       \* SimpleStateContainer.state
    history,     \* handler.history
    last,        \* the operation executed last and what it did
    appended,    \* every record a successful FSMHistory.append has added, in order
    driven,      \* the contexts driven so far while every step found its context in the row
    steps,       \* operations executed since construction
    built,       \* the State objects constructed so far, each with its arguments
    tasks,       \* the async_handle calls in flight, by task
    writes,      \* the states passed to set_state so far, in the order of the calls
    kstore,      \* a store keyed by entity: the current state of every entity
    klast        \* the step executed last against the keyed store

vars == <<pc, args, machine, handler, start_state, store, history, last, appended, driven, steps,
          built, tasks, writes, kstore, klast>>

\* the variables the synchronous single-slot operations leave alone
others == <<built, tasks, writes, kstore, klast>>

\* no async_handle call has been made
NoTasks == <<>>

\* no keyed store exists
NoKeyedStore == <<>>
\* no step has run against a keyed store
NoKeyedLast ==
    [op |-> "none", e |-> None, ec |-> FALSE, tc |-> FALSE, context |-> None, cur |-> None,
     before |-> <<>>, calls |-> <<>>, set_argv |-> <<>>, err |-> "ok"]

NoMachine == [raised |-> FALSE, kind |-> "none", states |-> {},
              transitions |-> SomeTransitions({}), final_states |-> {}]

NoArgs == [transitions |-> NoneTransitions, states |-> {}, final_states |-> NoneFinals]

NoOutcome == Outcome(None, <<>>, <<>>, <<>>, <<>>, "ok", ReturnNone)

NoLast == [op |-> "none", ec |-> FALSE, tc |-> FALSE, context |-> None, state |-> None,
           before_store |-> None, before_items |-> <<>>, step |-> NoOutcome, out |-> NoOutcome]

Init ==
    /\ pc = "new"
    /\ args = NoArgs
    /\ machine = NoMachine
    /\ handler = "none"
    /\ start_state = None
    /\ store = None
    /\ history = NoHistory
    /\ last = NoLast
    /\ appended = <<>>
    /\ driven = [ok |-> TRUE, contexts |-> <<>>]
    /\ steps = 0
    /\ built = <<>>
    /\ tasks = NoTasks
    /\ writes = <<>>
    /\ kstore = NoKeyedStore
    /\ klast = NoKeyedLast

\* the application constructs FSM(name, transitions, states)
NewFSM(transitions) ==
    /\ pc = "new"
    /\ LET m == FSM_init(transitions, StateNames)
       IN  /\ machine' = m
           /\ pc' = IF m.raised THEN "failed" ELSE "built"
    /\ args' = [transitions |-> transitions, states |-> StateNames, final_states |-> NoneFinals]
    /\ UNCHANGED <<handler, start_state, store, history, last, appended, driven, steps>>
    /\ UNCHANGED others

\* the application constructs FinalStetesFSM(name, transitions, states,
\* final_states, final_state_callback)
NewFinalStetesFSM(transitions, final_states) ==
    /\ pc = "new"
    /\ LET m == FinalStetesFSM_init(transitions, StateNames, final_states)
       IN  /\ machine' = m
           /\ pc' = IF m.raised THEN "failed" ELSE "built"
    /\ args' = [transitions |-> transitions, states |-> StateNames, final_states |-> final_states]
    /\ UNCHANGED <<handler, start_state, store, history, last, appended, driven, steps>>
    /\ UNCHANGED others

\* the history argument of a handler: None, or FSMHistory(machine, size)
HistoryArgs == {NoHistory, FSMHistory_init(NoSize)} \cup {FSMHistory_init(n) : n \in 0..MaxSize}

\* FSMHandler(SimpleStateContainer(start), machine, h), over a table of
\* either class
NewFSMHandler(start, h) ==
    /\ pc = "built"
    /\ start \in machine.states
    /\ pc' = "run"
    /\ handler' = "FSMHandler"
    /\ start_state' = start
    /\ store' = SimpleStateContainer_init(start)
    /\ history' = h
    /\ UNCHANGED <<args, machine, last, appended, driven, steps>>
    /\ UNCHANGED others

\* FinalStetesFSMHandler(SimpleStateContainer(start), machine, h)
NewFinalStetesFSMHandler(start, h) ==
    /\ pc = "built"
    /\ machine.kind = "FinalStetesFSM"
    /\ start \in machine.states
    /\ pc' = "run"
    /\ handler' = "FinalStetesFSMHandler"
    /\ start_state' = start
    /\ store' = SimpleStateContainer_init(start)
    /\ history' = FinalStetesFSMHandler_init(h)
    /\ UNCHANGED <<args, machine, last, appended, driven, steps>>
    /\ UNCHANGED others

\* the row of the table holds the context for the state
InRow(m, state, context) ==
    /\ ~m.transitions.isNone
    /\ state \in DOMAIN m.transitions.rows
    /\ context \in DOMAIN m.transitions.rows[state]

\* the effect of one handler call on the variables
Step(op, step, out, ec, tc, context) ==
    /\ store' = out.store
    /\ history' = [history EXCEPT !.items = out.items]
    /\ last' = [op |-> op, ec |-> ec, tc |-> ec /\ tc,
                context |-> IF ec /\ tc THEN context ELSE None, state |-> None,
                before_store |-> store, before_items |-> history.items,
                step |-> step, out |-> out]
    /\ appended' = appended \o out.added
    /\ driven' = IF driven.ok /\ ec /\ tc /\ InRow(machine, store, context)
                 THEN [driven EXCEPT !.contexts = Append(@, context)]
                 ELSE [ok |-> FALSE, contexts |-> <<>>]
    /\ steps' = steps + 1
    /\ UNCHANGED <<pc, args, machine, handler, start_state>>
    /\ UNCHANGED others

\* one event handled by FSMHandler.handle
Handle(ec, tc, context) ==
    /\ pc = "run"
    /\ handler = "FSMHandler"
    /\ steps < MaxSteps
    /\ LET out == FSMHandler_handle(machine, store, history, ec, tc, context)
       IN  Step("FSMHandler.handle", out, out, ec, tc, context)

\* one event handled by FinalStetesFSMHandler.handle
FinalHandle(ec, tc, context) ==
    /\ pc = "run"
    /\ handler = "FinalStetesFSMHandler"
    /\ steps < MaxSteps
    /\ LET step == FSMHandler_handle(machine, store, history, ec, tc, context)
           out == FinalStetesFSMHandler_handle(machine, store, history, ec, tc, context)
       IN  Step("FinalStetesFSMHandler.handle", step, out, ec, tc, context)

\* the application calls handler.history.append(context, state) itself
HistoryAppend(context, state) ==
    /\ pc = "run"
    /\ history.bound
    /\ steps < MaxSteps
    /\ LET a == append(machine, history, context, state)
           out == Outcome(store, a.items, <<"append">>, <<>>, a.added, a.err, ReturnNone)
       IN  /\ history' = [history EXCEPT !.items = a.items]
           /\ last' = [op |-> "FSMHistory.append", ec |-> FALSE, tc |-> FALSE,
                       context |-> context, state |-> state,
                       before_store |-> store, before_items |-> history.items,
                       step |-> out, out |-> out]
           /\ appended' = appended \o out.added
    /\ driven' = [ok |-> FALSE, contexts |-> <<>>]
    /\ steps' = steps + 1
    /\ UNCHANGED <<pc, args, machine, handler, start_state, store>>
    /\ UNCHANGED others

Next ==
    \/ \E t \in TransitionsArgs : NewFSM(t)
    \/ \E t \in TransitionsArgs, f \in FinalsArgs : NewFinalStetesFSM(t, f)
    \/ \E s \in StateNames, h \in HistoryArgs : NewFSMHandler(s, h)
    \/ \E s \in StateNames, h \in HistoryArgs : NewFinalStetesFSMHandler(s, h)
    \/ \E ec \in BOOLEAN, tc \in BOOLEAN, c \in AnyContext : Handle(ec, tc, c)
    \/ \E ec \in BOOLEAN, tc \in BOOLEAN, c \in AnyContext : FinalHandle(ec, tc, c)
    \/ \E c \in AppendContexts, s \in AppendStates : HistoryAppend(c, s)
    \/ HistoryAppend(None, None)

Spec == Init /\ [][Next]_vars

\* ------------------------------------------------------------ observations
\* how many times a call appears in a call sequence
Count(calls, name) == Cardinality({i \in 1..Len(calls) : calls[i] = name})

\* the first call of that name comes before the first call of the other
Before(calls, first, second) ==
    \E i, j \in 1..Len(calls) : i < j /\ calls[i] = first /\ calls[j] = second

\* the last operation was one step of a handler
IsStep == last.op \in {"FSMHandler.handle", "FinalStetesFSMHandler.handle"}

\* the table instance exists
Constructed == pc \in {"built", "run"}

\* ------------------------------------------------------------------ claims

\* C1: for a state S with both conditions true and a context C that is a key
\* of S's row, one step invokes action and then getcontext exactly once each,
\* calls set_state exactly once with getnextstate(S.name, C) and, when a
\* history is bound, appends exactly the one record (C, that state).
C1_TransitionStep ==
    (IsStep /\ last.ec /\ last.tc /\ InRow(machine, last.before_store, last.context)) =>
        LET s == last.step
            n == getnextstate(machine, last.before_store, last.context)
        IN  /\ Count(s.calls, "action") = 1
            /\ Count(s.calls, "getcontext") = 1
            /\ Before(s.calls, "action", "getcontext")
            /\ n.err = "ok"
            /\ s.set_args = <<n.state>>
            /\ s.store = n.state
            /\ history.bound => s.added = <<Record(last.context, n.state)>>

\* C2: for a state whose entering_condition is false, a step of
\* FSMHandler.handle invokes no action, appends no record (no sentinel
\* either), calls no set_state and returns None; store and history are the
\* same after the step as before it.
C2_SkipIsPure ==
    (IsStep /\ ~last.ec) =>
        LET s == last.step
        IN  /\ Count(s.calls, "action") = 0
            /\ Count(s.calls, "append") = 0
            /\ Count(s.calls, "set_state") = 0
            /\ s.set_args = <<>>
            /\ s.added = <<>>
            /\ s.err = "ok"
            /\ s.ret = ReturnNone
            /\ s.store = last.before_store
            /\ s.items = last.before_items
            /\ store = last.before_store
            /\ history.items = last.before_items

\* C2 witness: FSMHandler.handle skipped a step while the bound history
\* already held a record.
C2_Witness ==
    /\ last.op = "FSMHandler.handle"
    /\ ~last.ec
    /\ history.bound
    /\ Len(history.items) > 0

\* C3: for a state with entering_condition true and transition_condition
\* false, a step invokes action exactly once, calls no set_state, returns
\* the action's result and, when a history is bound, appends exactly one
\* sentinel record (None, None).
C3_NoTransitionStep ==
    (IsStep /\ last.ec /\ ~last.tc) =>
        LET s == last.step
        IN  /\ Count(s.calls, "action") = 1
            /\ Count(s.calls, "set_state") = 0
            /\ s.set_args = <<>>
            /\ s.err = "ok"
            /\ s.ret = ReturnRes(ActionResult(last.before_store))
            /\ history.bound => s.added = <<Record(None, None)>>

\* C4: through FinalStetesFSMHandler.handle, a step that transitioned into a
\* final state invokes final_state_callback once with that step's context
\* and state and returns (callback result, step result); a step that was
\* skipped, did not transition or landed on a non-final state invokes no
\* callback and returns the plain step result.
C4_FinalDispatch ==
    (last.op = "FinalStetesFSMHandler.handle") =>
        LET s == last.step
            o == last.out
            transitioned == s.set_args # <<>>
            plain == IF last.ec THEN ReturnRes(ActionResult(last.before_store)) ELSE ReturnNone
        IN  /\ (transitioned /\ isfinalstate(machine, s.set_args[1])) =>
                /\ o.err = "ok"
                /\ o.cbk_args = <<Record(last.context, s.set_args[1])>>
                /\ o.ret = ReturnPair(CallbackResult(last.context, s.set_args[1]),
                                      ActionResult(last.before_store))
            /\ (~last.ec \/ ~last.tc \/ (transitioned /\ ~isfinalstate(machine, s.set_args[1]))) =>
                /\ o.err = "ok"
                /\ o.cbk_args = <<>>
                /\ o.ret = plain

\* C5: constructing a table whose transitions use, as a row key or as a
\* target, a name absent from states fails and yields no instance; in every
\* constructed table every name in transitions is a name in states.
C5_TransitionsValidated ==
    /\ (pc # "new" /\ ~args.transitions.isNone
            /\ ~(NamesUsed(args.transitions.rows) \subseteq args.states)) => pc = "failed"
    /\ (Constructed /\ ~machine.transitions.isNone) =>
            NamesUsed(machine.transitions.rows) \subseteq machine.states

\* the exception classes that are lookup errors
LookupErrors == {"KeyError", "IndexError"}

\* C6: when the computed context is not a key of the current state's row (or
\* the state has no row), the step fails with a lookup error that reaches
\* the caller; set_state is not called and no record is appended, so store
\* and history are unchanged.
C6_LookupFailure ==
    (IsStep /\ last.ec /\ last.tc /\ ~InRow(machine, last.before_store, last.context)) =>
        /\ last.step.err \in LookupErrors
        /\ last.out.err = last.step.err
        /\ Count(last.out.calls, "set_state") = 0
        /\ last.out.set_args = <<>>
        /\ last.out.added = <<>>
        /\ store = last.before_store
        /\ history.items = last.before_items

\* the last n elements of a sequence
LastN(seq, n) == SubSeq(seq, Len(seq) - n + 1, Len(seq))

Min(a, b) == IF a < b THEN a ELSE b

\* C7: a history with maximum size N never holds more than N records and
\* holds exactly the last min(N, number of appends) appended records in
\* append order; with no maximum nothing is ever removed.
C7_LastNRecords ==
    history.bound =>
        IF history.size = NoSize
        THEN history.items = appended
        ELSE /\ Len(history.items) <= history.size
             /\ history.items = LastN(appended, Min(history.size, Len(appended)))

\* C7 witness: a history with a positive maximum is full and has evicted
\* at least one record.
C7_Witness ==
    /\ history.bound
    /\ history.size # NoSize
    /\ history.size > 0
    /\ Len(history.items) = history.size
    /\ Len(appended) > history.size

\* a record other than the sentinel
NonSentinel(r) == ~(r.context = None /\ r.state = None)

\* the context is a key of at least one row of the table
ContextInTable(m, context) ==
    /\ ~m.transitions.isNone
    /\ \E r \in DOMAIN m.transitions.rows : context \in DOMAIN m.transitions.rows[r]

\* C8: every non-sentinel record of the history has a context that is a key
\* of some row and a state whose name is in states; an append of a pair
\* violating either fails with a validation error and leaves the history
\* unchanged.
C8_RecordsValid ==
    /\ \A i \in 1..Len(history.items) :
          NonSentinel(history.items[i]) =>
              /\ ContextInTable(machine, history.items[i].context)
              /\ isstate(machine, history.items[i].state)
    /\ (/\ last.op = "FSMHistory.append"
        /\ NonSentinel(Record(last.context, last.state))
        /\ ~(ContextInTable(machine, last.context) /\ isstate(machine, last.state))) =>
            /\ last.out.err = "Exception"
            /\ history.items = last.before_items

\* C9: constructing a final-state table whose final states are not a subset
\* of states fails; in every constructed final-state table every final
\* state name is a name in states.
C9_FinalStatesValidated ==
    /\ (pc # "new" /\ ~args.final_states.isNone
            /\ ~(args.final_states.names \subseteq args.states)) => pc = "failed"
    /\ (Constructed /\ machine.kind = "FinalStetesFSM") =>
            machine.final_states \subseteq machine.states

\* the names obtained by following the transitions dict from a state
\* through a sequence of contexts
RECURSIVE Follow(_, _, _)
Follow(m, state, contexts) ==
    IF contexts = <<>>
    THEN <<>>
    ELSE IF InRow(m, state, Head(contexts))
         THEN <<m.transitions.rows[state][Head(contexts)]>>
                  \o Follow(m, m.transitions.rows[state][Head(contexts)], Tail(contexts))
         ELSE <<>>

\* C10: driving events that each yield a context of the current state's row
\* (all conditions true) leaves the store at the state reached by following
\* the table from the seeded state through the contexts, and the state
\* sequence of a history that keeps every record is the states entered.
C10_FollowsTable ==
    (pc = "run" /\ driven.ok) =>
        LET entered == Follow(machine, start_state, driven.contexts)
        IN  /\ Len(entered) = Len(driven.contexts)
            /\ store = (IF entered = <<>> THEN start_state ELSE entered[Len(entered)])
            /\ (history.bound /\ history.size = NoSize) =>
                    get_state_sequence(history) = entered

\* C12: landing on a final state does not halt the machine: a step from a
\* final state F whose conditions are true and whose context is a key of F's
\* row moves the store to the state the lookup gives, as a step from a
\* non-final state does (a failed lookup leaves the store where it was).
C12_FinalDoesNotHalt ==
    (/\ IsStep /\ last.ec /\ last.tc
     /\ isfinalstate(machine, last.before_store)
     /\ InRow(machine, last.before_store, last.context)) =>
        LET n == getnextstate(machine, last.before_store, last.context)
        IN  IF n.err = "ok"
            THEN /\ last.out.set_args = <<n.state>>
                 /\ last.out.store = n.state
                 /\ store = n.state
            ELSE /\ last.out.err = n.err
                 /\ store = last.before_store

\* C12 witness: a store seeded elsewhere was moved to the final state done
\* by one step and on to idle by the next, through the final-state handler.
C12_Witness ==
    /\ last.op = "FinalStetesFSMHandler.handle"
    /\ start_state # "done"
    /\ last.before_store = "done"
    /\ isfinalstate(machine, "done")
    /\ last.ec /\ last.tc
    /\ store = "idle"

\* ======================================================= State construction
\* the constant predicates of src/state.py
TRUE_CONDITION == "TRUE_CONDITION"
FALSE_CONDITION == "FALSE_CONDITION"

\* the values an application passes for a condition: a bool literal, or its
\* own callable (one for the entering condition, another for the transition
\* condition)
BoolLiterals == {"True", "False"}
EnteringArgs == BoolLiterals \cup {"entering_fn"}
TransitionArgs == BoolLiterals \cup {"transition_fn"}

\* type(x) is bool
IsBool(x) == x \in BoolLiterals

\* State.__init__: both attributes are chosen by the type and the value of
\* the entering_condition argument
State_init(name, entering_condition, transition_condition) ==
    [name |-> name,
     entering_condition |->
        IF ~IsBool(entering_condition) THEN entering_condition
        ELSE IF entering_condition = "True" THEN TRUE_CONDITION
        ELSE FALSE_CONDITION,
     transition_condition |->
        IF ~IsBool(entering_condition) THEN transition_condition
        ELSE IF entering_condition = "True" THEN TRUE_CONDITION
        ELSE FALSE_CONDITION]

\* the application constructs State(name, action, getcontext, e, t)
NewState(name, e, t) ==
    /\ Len(built) < MaxBuilt
    /\ built' = Append(built, [e |-> e, t |-> t, state |-> State_init(name, e, t)])
    /\ UNCHANGED <<pc, args, machine, handler, start_state, store, history, last, appended,
                   driven, steps, tasks, writes, kstore, klast>>

NextState == \E n \in StateNames, e \in EnteringArgs, t \in TransitionArgs : NewState(n, e, t)

SpecState == Init /\ [][NextState]_vars

\* the constant predicate returning the bool literal
ConstantPredicate(b) == IF b = "True" THEN TRUE_CONDITION ELSE FALSE_CONDITION

Tasks == {"t1", "t2"}

\* the exception a user callable raises, and the one a cancelled task gets
UserError == "UserError"
CancelledError == "CancelledError"

\* the awaits of FSMHandler.async_handle that come before its set_state call
BeforeSetState ==
    {"get_state", "entering_condition", "action", "transition_condition", "getcontext"}

\* every point where a call of async_handle can be suspended; the await of
\* set_state is suspended before the store has written or after it
Awaits == BeforeSetState \cup {"set_state", "set_state_written", "final_state_callback"}

\* a task that has not called async_handle
IdleTask ==
    [pc |-> "idle", cur |-> None, ec |-> FALSE, tc |-> FALSE, context |-> None,
     fail |-> "none", new_state |-> None, calls |-> <<>>, set_args |-> <<>>,
     added |-> <<>>, cbk_args |-> <<>>, err |-> "ok", ret |-> ReturnNone,
     cancelled_at |-> "none", begin_store |-> None, begin_items |-> <<>>,
     begin_steps |-> 0, end_store |-> None, end_items |-> <<>>, foreign |-> FALSE,
     op |-> "async_handle"]

\* what one resumption of a task leaves: the task, the store, the history
\* items and the table
Resumed(t, st, items, m) == [task |-> t, store |-> st, items |-> items, machine |-> m]

\* the task calls a callable and is suspended on it
Await(t, callable) == [t EXCEPT !.pc = callable, !.calls = @ \o <<callable>>]

\* the call ends with an exception
Raise(t, err) == [t EXCEPT !.pc = "done", !.err = err, !.ret = ReturnNone]

\* the call ends with a return value
Return(t, ret) == [t EXCEPT !.pc = "done", !.err = "ok", !.ret = ret]

\* FinalStetesFSMHandler.async_handle after super().async_handle returned
\* res: the last record of the history decides whether the callback is
\* awaited
AsyncDispatch(m, t, items, res) ==
    IF Len(items) = 0
    THEN Raise(t, "IndexError")
    ELSE LET record == items[Len(items)]
         IN  IF record.state = None
             THEN Raise(t, "AttributeError")
             ELSE IF ~isfinalstate(m, record.state)
             THEN Return([t EXCEPT !.calls = @ \o <<"isfinalstate">>], ReturnRes(res))
             ELSE [Await([t EXCEPT !.calls = @ \o <<"isfinalstate">>], "final_state_callback")
                      EXCEPT !.cbk_args = <<record>>,
                             !.ret = ReturnRes(res)]

\* FSMHandler.async_handle returns res to its caller: the application, or
\* FinalStetesFSMHandler.async_handle
AsyncReturn(hk, m, t, items, res) ==
    IF hk = "FinalStetesFSMHandler"
    THEN AsyncDispatch(m, t, items, res)
    ELSE Return(t, ReturnRes(res))

\* async_handle is called: get_state is called and awaited
Call(t, st, items, n) ==
    [Await(IdleTask, "get_state") EXCEPT !.begin_store = st, !.begin_items = items,
                                         !.begin_steps = n]

\* get_state resumes with the current state; entering_condition is awaited
Resume_get_state(hk, m, st, h, t) ==
    Resumed(Await([t EXCEPT !.cur = get_state(st)], "entering_condition"), st, h.items, m)

\* entering_condition resumes: a false result ends the step, a true one
\* awaits the action
Resume_entering_condition(hk, m, st, h, t, ec, raises) ==
    IF raises
    THEN Resumed(Raise([t EXCEPT !.fail = "entering_condition"], UserError), st, h.items, m)
    ELSE IF ~ec
    THEN Resumed(AsyncReturn(hk, m, t, h.items, <<>>), st, h.items, m)
    ELSE Resumed(Await([t EXCEPT !.ec = TRUE], "action"), st, h.items, m)

\* async_handle as it would be if it cleared the store's slot for the time
\* between the action and set_state
Resume_action_ClearsStore(hk, m, st, h, t, raises) ==
    IF raises
    THEN Resumed(Raise([t EXCEPT !.fail = "action"], UserError), st, h.items, m)
    ELSE Resumed(Await(t, "transition_condition"), None, h.items, m)

\* the action resumes with res; transition_condition is awaited
Resume_action(hk, m, st, h, t, raises) ==
    IF raises
    THEN Resumed(Raise([t EXCEPT !.fail = "action"], UserError), st, h.items, m)
    ELSE Resumed(Await(t, "transition_condition"), st, h.items, m)

\* transition_condition resumes: a false result appends the sentinel to a
\* bound history and returns res, a true one awaits getcontext
Resume_transition_condition(hk, m, st, h, t, tc, raises) ==
    IF raises
    THEN Resumed(Raise([t EXCEPT !.fail = "transition_condition"], UserError), st, h.items, m)
    ELSE IF ~tc
    THEN IF h.bound
         THEN LET a == append(m, h, None, None)
                  t1 == [t EXCEPT !.calls = @ \o <<"append">>, !.added = a.added]
              IN  IF a.err # "ok"
                  THEN Resumed(Raise(t1, a.err), st, a.items, m)
                  ELSE Resumed(AsyncReturn(hk, m, t1, a.items, ActionResult(t.cur)), st, a.items, m)
         ELSE Resumed(AsyncReturn(hk, m, t, h.items, ActionResult(t.cur)), st, h.items, m)
    ELSE Resumed(Await([t EXCEPT !.tc = TRUE], "getcontext"), st, h.items, m)

\* async_handle as it would be if the lookup consumed the entry it used
\* (dict.pop in place of the subscript)
Resume_getcontext_PopsEntry(hk, m, st, h, t, context, raises) ==
    IF raises
    THEN Resumed(Raise([t EXCEPT !.fail = "getcontext"], UserError), st, h.items, m)
    ELSE LET n == getnextstate(m, t.cur, context)
             t1 == [t EXCEPT !.context = context, !.calls = @ \o <<"getnextstate">>]
         IN  IF n.err # "ok"
             THEN Resumed(Raise(t1, n.err), st, h.items, m)
             ELSE Resumed([Await(t1, "set_state") EXCEPT !.new_state = n.state,
                                                         !.set_args = <<n.state>>],
                          st, h.items,
                          [m EXCEPT !.transitions.rows[t.cur] =
                              [c \in DOMAIN @ \ {context} |-> @[c]]])

\* getcontext resumes with the context; the lookup is made from the state
\* read at the start of the call, and set_state is awaited with its result
Resume_getcontext(hk, m, st, h, t, context, raises) ==
    IF raises
    THEN Resumed(Raise([t EXCEPT !.fail = "getcontext"], UserError), st, h.items, m)
    ELSE LET n == getnextstate(m, t.cur, context)
             t1 == [t EXCEPT !.context = context, !.calls = @ \o <<"getnextstate">>]
         IN  IF n.err # "ok"
             THEN Resumed(Raise(t1, n.err), st, h.items, m)
             ELSE Resumed([Await(t1, "set_state") EXCEPT !.new_state = n.state,
                                                         !.set_args = <<n.state>>],
                          st, h.items, m)

\* the awaited set_state as a store would execute it if it wrote only when
\* the slot still held the state the step had read
Write_set_state_CompareAndSet(hk, m, st, h, t) ==
    Resumed([t EXCEPT !.pc = "set_state_written"],
            IF get_state(st) = t.cur THEN set_state(st, t.new_state) ELSE st, h.items, m)

\* the store executes the awaited set_state
Write_set_state(hk, m, st, h, t) ==
    Resumed([t EXCEPT !.pc = "set_state_written"], set_state(st, t.new_state), h.items, m)

\* async_handle as it would be if it appended no record after set_state
Resume_set_state_NoAppend(hk, m, st, h, t) ==
    Resumed(AsyncReturn(hk, m, t, h.items, ActionResult(t.cur)), st, h.items, m)

\* set_state resumes: the record is appended to a bound history and res is
\* returned
Resume_set_state(hk, m, st, h, t) ==
    IF h.bound
    THEN LET a == append(m, h, t.context, t.new_state)
             t1 == [t EXCEPT !.calls = @ \o <<"append">>, !.added = a.added]
         IN  IF a.err # "ok"
             THEN Resumed(Raise(t1, a.err), st, a.items, m)
             ELSE Resumed(AsyncReturn(hk, m, t1, a.items, ActionResult(t.cur)), st, a.items, m)
    ELSE Resumed(AsyncReturn(hk, m, t, h.items, ActionResult(t.cur)), st, h.items, m)

\* final_state_callback resumes: the pair is returned
Resume_final_state_callback(hk, m, st, h, t) ==
    Resumed(Return(t, ReturnPair(CallbackResult(t.cbk_args[1].context, t.cbk_args[1].state),
                                 t.ret.res)),
            st, h.items, m)

\* a suspended call is cancelled: CancelledError leaves it where it waits
Cancelled(t) ==
    [t EXCEPT !.pc = "cancelled", !.cancelled_at = t.pc, !.err = CancelledError,
              !.ret = ReturnNone]

\* the user callable that raises in a synchronous step, if any
Callables == {"entering_condition", "action", "transition_condition", "getcontext"}

\* handle of either handler class
HandleOf(hk, m, st, h, ec, tc, context) ==
    IF hk = "FinalStetesFSMHandler"
    THEN FinalStetesFSMHandler_handle(m, st, h, ec, tc, context)
    ELSE FSMHandler_handle(m, st, h, ec, tc, context)

\* handle as it would be if it caught the exception and went on with the
\* value given for the callable
HandleRaising_Swallows(hk, m, st, h, ec, tc, context, fail) ==
    HandleOf(hk, m, st, h, ec, tc, context)

\* handle of either class when the callable fail raises: no handler has a
\* try statement, so the exception leaves handle at the call
HandleRaising(hk, m, st, h, ec, tc, context, fail) ==
    LET c1 == <<"get_state", "entering_condition">>
        c2 == c1 \o <<"action">>
        c3 == c2 \o <<"transition_condition">>
        c4 == c3 \o <<"getcontext">>
        raised(calls) == Outcome(st, h.items, calls, <<>>, <<>>, UserError, ReturnNone)
    IN  IF fail = "entering_condition" THEN raised(c1)
        ELSE IF ~ec THEN HandleOf(hk, m, st, h, ec, tc, context)
        ELSE IF fail = "action" THEN raised(c2)
        ELSE IF fail = "transition_condition" THEN raised(c3)
        ELSE IF ~tc THEN HandleOf(hk, m, st, h, ec, tc, context)
        ELSE IF fail = "getcontext" THEN raised(c4)
        ELSE HandleOf(hk, m, st, h, ec, tc, context)

\* the results the callables of one step give: the two conditions, the
\* context and the callable that raises; a callable the step does not reach
\* gives nothing
StepInputs ==
    {[ec |-> FALSE, tc |-> FALSE, context |-> None, fail |-> f] :
        f \in {"none", "entering_condition"}}
    \cup {[ec |-> TRUE, tc |-> FALSE, context |-> None, fail |-> f] :
        f \in {"none", "action", "transition_condition"}}
    \cup {[ec |-> TRUE, tc |-> TRUE, context |-> None, fail |-> "getcontext"]}
    \cup {[ec |-> TRUE, tc |-> TRUE, context |-> c, fail |-> "none"] : c \in AnyContext}

\* the tables, histories and handlers the concurrent steps run against
AsyncTransitionsArgs == {NoneTransitions, SomeTransitions(ScenarioEntries \cup ExtraEntries)}
AsyncFinalsArgs == {SomeFinals({"done"})}
AsyncHistoryArgs == {NoHistory, FSMHistory_init(NoSize)}
AsyncStarts == {"idle", "awaiting"}
Handlers == {"FSMHandler", "FinalStetesFSMHandler"}

\* a handler of class hk constructed over a table of the class it is
\* written for, built from (t, f), with a store seeded with start and the
\* history argument h
InitAsync ==
    \E hk \in Handlers, t \in AsyncTransitionsArgs, f \in AsyncFinalsArgs,
       start \in AsyncStarts, h \in AsyncHistoryArgs :
      LET kind == IF hk = "FSMHandler" THEN "FSM" ELSE "FinalStetesFSM"
      IN
        /\ pc = "run"
        /\ args = [transitions |-> t, states |-> StateNames,
                   final_states |-> IF kind = "FSM" THEN NoneFinals ELSE f]
        /\ machine = IF kind = "FSM" THEN FSM_init(t, StateNames)
                     ELSE FinalStetesFSM_init(t, StateNames, f)
        /\ handler = hk
        /\ start_state = start
        /\ store = SimpleStateContainer_init(start)
        /\ history = IF hk = "FinalStetesFSMHandler" THEN FinalStetesFSMHandler_init(h) ELSE h
        /\ last = NoLast
        /\ appended = <<>>
        /\ driven = [ok |-> TRUE, contexts |-> <<>>]
        /\ steps = 0
        /\ built = <<>>
        /\ tasks = [t2 \in Tasks |-> IdleTask]
        /\ writes = <<>>
        /\ kstore = NoKeyedStore
        /\ klast = NoKeyedLast

\* the variables the concurrent steps leave alone
asyncFrame == <<pc, args, handler, start_state, last, appended, driven, built, kstore, klast>>

\* another caller acted while the suspended calls were in flight
Disturbed(ts, t) ==
    [u \in Tasks |-> IF u # t /\ ts[u].pc \in Awaits THEN [ts[u] EXCEPT !.foreign = TRUE] ELSE ts[u]]

\* the task as its call left it, with the store and history it ended on
Ended(t, st, items) ==
    IF t.pc \in {"done", "cancelled"}
    THEN [t EXCEPT !.end_store = st, !.end_items = items]
    ELSE t

\* one resumption r of task t takes effect
Resume(t, r) ==
    /\ store' = r.store
    /\ history' = [history EXCEPT !.items = r.items]
    /\ machine' = r.machine
    /\ tasks' = [Disturbed(tasks, t) EXCEPT ![t] = Ended(r.task, r.store, r.items)]
    /\ UNCHANGED steps
    /\ UNCHANGED asyncFrame

\* task t calls handler.async_handle
AsyncCall(t) ==
    /\ tasks[t].pc \notin Awaits
    /\ steps < MaxCalls
    /\ tasks' = [Disturbed(tasks, t) EXCEPT ![t] = Call(t, store, history.items, steps + 1)]
    /\ steps' = steps + 1
    /\ UNCHANGED <<store, history, machine, writes>>
    /\ UNCHANGED asyncFrame

AsyncGetState(t) ==
    /\ tasks[t].pc = "get_state"
    /\ Resume(t, Resume_get_state(handler, machine, store, history, tasks[t]))
    /\ UNCHANGED writes

AsyncEnteringCondition(t, ec, raises) ==
    /\ tasks[t].pc = "entering_condition"
    /\ Resume(t, Resume_entering_condition(handler, machine, store, history, tasks[t], ec, raises))
    /\ UNCHANGED writes

AsyncAction(t, raises) ==
    /\ tasks[t].pc = "action"
    /\ Resume(t, Resume_action(handler, machine, store, history, tasks[t], raises))
    /\ UNCHANGED writes

AsyncTransitionCondition(t, tc, raises) ==
    /\ tasks[t].pc = "transition_condition"
    /\ Resume(t, Resume_transition_condition(handler, machine, store, history, tasks[t], tc, raises))
    /\ UNCHANGED writes

AsyncGetContext(t, context, raises) ==
    /\ tasks[t].pc = "getcontext"
    /\ Resume(t, Resume_getcontext(handler, machine, store, history, tasks[t], context, raises))
    /\ UNCHANGED writes

\* the store takes the write of the awaited set_state
AsyncSetStateWrite(t) ==
    /\ tasks[t].pc = "set_state"
    /\ Resume(t, Write_set_state(handler, machine, store, history, tasks[t]))
    /\ writes' = Append(writes, [task |-> t, read |-> tasks[t].cur,
                                 context |-> tasks[t].context, state |-> tasks[t].new_state])

AsyncSetState(t) ==
    /\ tasks[t].pc = "set_state_written"
    /\ Resume(t, Resume_set_state(handler, machine, store, history, tasks[t]))
    /\ UNCHANGED writes

AsyncFinalStateCallback(t) ==
    /\ tasks[t].pc = "final_state_callback"
    /\ Resume(t, Resume_final_state_callback(handler, machine, store, history, tasks[t]))
    /\ UNCHANGED writes

\* the application cancels the suspended call of task t
Cancel(t) ==
    /\ tasks[t].pc \in Awaits
    /\ tasks' = [Disturbed(tasks, t) EXCEPT
                    ![t] = Ended(Cancelled(tasks[t]), store, history.items)]
    /\ UNCHANGED <<store, history, machine, steps, writes>>
    /\ UNCHANGED asyncFrame

\* the task a synchronous call leaves: it ran from call to return in one go
SyncTask(out, in, st, items, n) ==
    [IdleTask EXCEPT !.pc = "done", !.op = "handle", !.cur = get_state(st),
                     !.ec = in.ec, !.tc = in.tc, !.context = in.context, !.fail = in.fail,
                     !.new_state = IF out.set_args = <<>> THEN None ELSE out.set_args[1],
                     !.calls = out.calls, !.set_args = out.set_args, !.added = out.added,
                     !.cbk_args = out.cbk_args, !.err = out.err, !.ret = out.ret,
                     !.begin_store = st, !.begin_items = items, !.begin_steps = n,
                     !.end_store = out.store, !.end_items = out.items]

\* task t calls handler.handle while other calls may be suspended
SyncHandle(t, in) ==
    /\ tasks[t].pc \notin Awaits
    /\ steps < MaxCalls
    /\ LET out == HandleRaising(handler, machine, store, history,
                                in.ec, in.tc, in.context, in.fail)
       IN  /\ store' = out.store
           /\ history' = [history EXCEPT !.items = out.items]
           /\ tasks' = [Disturbed(tasks, t) EXCEPT
                           ![t] = SyncTask(out, in, store, history.items, steps + 1)]
           /\ writes' = IF out.set_args = <<>> THEN writes
                        ELSE Append(writes, [task |-> t, read |-> get_state(store),
                                             context |-> in.context,
                                             state |-> out.set_args[1]])
    /\ steps' = steps + 1
    /\ UNCHANGED machine
    /\ UNCHANGED asyncFrame

NextAsync ==
    \/ \E t \in Tasks : AsyncCall(t)
    \/ \E t \in Tasks : AsyncGetState(t)
    \/ \E t \in Tasks, ec \in BOOLEAN : AsyncEnteringCondition(t, ec, FALSE)
    \/ \E t \in Tasks : AsyncEnteringCondition(t, FALSE, TRUE)
    \/ \E t \in Tasks, raises \in BOOLEAN : AsyncAction(t, raises)
    \/ \E t \in Tasks, tc \in BOOLEAN : AsyncTransitionCondition(t, tc, FALSE)
    \/ \E t \in Tasks : AsyncTransitionCondition(t, FALSE, TRUE)
    \/ \E t \in Tasks, c \in AnyContext : AsyncGetContext(t, c, FALSE)
    \/ \E t \in Tasks : AsyncGetContext(t, None, TRUE)
    \/ \E t \in Tasks : AsyncSetStateWrite(t)
    \/ \E t \in Tasks : AsyncSetState(t)
    \/ \E t \in Tasks : AsyncFinalStateCallback(t)
    \/ \E t \in Tasks : Cancel(t)
    \/ \E t \in Tasks, in \in StepInputs : SyncHandle(t, in)

SpecAsync == InitAsync /\ [][NextAsync]_vars

\* ------------------------------------------------- claims on concurrent steps

\* C18: in every reachable state, under any interleaving of synchronous and
\* suspended steps, failures and cancellations, the store holds a State of
\* the table's states, and every value passed to set_state is a State of the
\* table's states.
C18_StoreHoldsTableState ==
    /\ store \in machine.states
    /\ \A i \in 1..Len(writes) : writes[i].state \in machine.states
    /\ \A t \in Tasks : \A i \in 1..Len(tasks[t].set_args) :
           tasks[t].set_args[i] \in machine.states

\* C18 witness: a suspended step was cancelled after the store took its
\* write, another step failed its lookup on the target that names no State,
\* and the store holds the cancelled step's new state
C18_Witness ==
    /\ \E t \in Tasks : /\ tasks[t].pc = "cancelled"
                        /\ tasks[t].cancelled_at = "set_state_written"
                        /\ store = tasks[t].new_state
                        /\ store # start_state
    /\ \E t \in Tasks : /\ tasks[t].pc = "done"
                        /\ tasks[t].err = "KeyError"
                        /\ tasks[t].cur = "idle"
                        /\ tasks[t].context = "cancel"

\* C11: handle and async_handle, run without interleaving from the same
\* store state, history and event arguments, make the same sequence of calls
\* and end with the same store state, the same history and the same return
\* value (or the same exception), for FSMHandler and FinalStetesFSMHandler.
C11_SameAsHandle ==
    \A t \in Tasks :
        LET k == tasks[t]
        IN  (k.op = "async_handle" /\ k.pc = "done" /\ ~k.foreign) =>
                LET o == HandleRaising(handler, machine, k.begin_store,
                                       [history EXCEPT !.items = k.begin_items],
                                       k.ec, k.tc, k.context, k.fail)
                IN  /\ k.calls = o.calls
                    /\ k.set_args = o.set_args
                    /\ k.added = o.added
                    /\ k.cbk_args = o.cbk_args
                    /\ k.err = o.err
                    /\ k.ret = o.ret
                    /\ k.end_store = o.store
                    /\ k.end_items = o.items

\* C11 witness: an uninterleaved async_handle of FinalStetesFSMHandler made
\* every call of a transitioning step, appended its record and returned the
\* pair of the callback
C11_Witness ==
    \E t \in Tasks :
        /\ tasks[t].op = "async_handle"
        /\ tasks[t].pc = "done"
        /\ ~tasks[t].foreign
        /\ handler = "FinalStetesFSMHandler"
        /\ tasks[t].calls = <<"get_state", "entering_condition", "action",
                              "transition_condition", "getcontext", "getnextstate",
                              "set_state", "append", "isfinalstate", "final_state_callback">>
        /\ tasks[t].ret.tuple
        /\ tasks[t].end_store = "done"

\* C14: an exception raised by entering_condition, action,
\* transition_condition or getcontext ends the step (handle or async_handle)
\* with that exception: the callable was called once and is the last call,
\* nothing is returned, set_state is not called and no record is appended.
C14_RaisePropagates ==
    \A t \in Tasks :
        LET k == tasks[t]
        IN  (k.pc = "done" /\ k.fail \in Callables) =>
                /\ k.err = UserError
                /\ k.ret = ReturnNone
                /\ Count(k.calls, k.fail) = 1
                /\ k.calls[Len(k.calls)] = k.fail
                /\ Count(k.calls, "set_state") = 0
                /\ Count(k.calls, "append") = 0
                /\ k.set_args = <<>>
                /\ k.added = <<>>
                /\ ~k.foreign => (k.end_store = k.begin_store /\ k.end_items = k.begin_items)

\* C14 witness: a handle call ended on its raising action and an
\* async_handle call ended on its raising getcontext
C14_Witness ==
    \E t, u \in Tasks :
        /\ tasks[t].op = "handle" /\ tasks[t].pc = "done" /\ tasks[t].fail = "action"
        /\ tasks[t].err = UserError
        /\ tasks[u].op = "async_handle" /\ tasks[u].pc = "done" /\ tasks[u].fail = "getcontext"
        /\ tasks[u].err = UserError

\* C15: concurrent async_handle calls are not serialized: every set_state
\* writes the state looked up from the state its own step read, whatever the
\* store holds by then, and the store holds the state of the latest write.
C15_LastWriterWins ==
    /\ writes # <<>> => store = writes[Len(writes)].state
    /\ \A i \in 1..Len(writes) :
           LET n == getnextstate(machine, writes[i].read, writes[i].context)
           IN  n.err = "ok" /\ writes[i].state = n.state

\* C15 witness (the lost update): two async_handle calls read the same
\* state before either wrote, each wrote its own target, and the store holds
\* only the later one
C15_Witness ==
    /\ Len(writes) = 2
    /\ writes[1].task # writes[2].task
    /\ \A t \in Tasks : tasks[t].op = "async_handle" /\ tasks[t].pc = "done"
    /\ writes[1].read = start_state
    /\ writes[2].read = start_state
    /\ writes[1].state # start_state
    /\ writes[1].state # writes[2].state
    /\ store = writes[2].state

\* C16: an async_handle call cancelled while it awaits get_state,
\* entering_condition, action, transition_condition or getcontext has called
\* no set_state and appended no record; if no other caller acted meanwhile,
\* store and history are what they were when the call began.
C16_CancelBeforeSetState ==
    \A t \in Tasks :
        LET k == tasks[t]
        IN  (k.pc = "cancelled" /\ k.cancelled_at \in BeforeSetState) =>
                /\ k.set_args = <<>>
                /\ k.added = <<>>
                /\ Count(k.calls, "set_state") = 0
                /\ Count(k.calls, "append") = 0
                /\ ~k.foreign => (k.end_store = k.begin_store /\ k.end_items = k.begin_items)

\* C16 witness: a call that ran alone was cancelled while it awaited
\* getcontext, after an earlier step had moved the store and added a record
C16_Witness ==
    \E t \in Tasks :
        /\ tasks[t].pc = "cancelled"
        /\ tasks[t].cancelled_at = "getcontext"
        /\ ~tasks[t].foreign
        /\ tasks[t].begin_store # start_state
        /\ tasks[t].begin_items # <<>>
        /\ store = tasks[t].begin_store

\* C17: set_state is the last observable side effect of a step: no call of
\* the step follows its set_state call, and a step that ended (returned,
\* failed or was cancelled) with the store updated has appended its record
\* to a bound history.
C17_SetStateIsLast ==
    \A t \in Tasks :
        LET k == tasks[t]
        IN  /\ Count(k.calls, "set_state") > 0 => k.calls[Len(k.calls)] = "set_state"
            /\ (k.pc \in {"done", "cancelled"} /\ history.bound
                    /\ k.cancelled_at \notin {"set_state"}
                    /\ Count(k.calls, "set_state") > 0) => k.added # <<>>

\* C20: no step of either handler (handle or async_handle), with its history
\* append and its callback dispatch, changes the table's states, transitions
\* or final_states, so getnextstate gives the same result for the same
\* arguments throughout.
C20_TableNeverChanges ==
    [][/\ machine' = machine
       /\ \A s \in StateNames \cup {Ghost}, c \in AnyContext :
              getnextstate(machine', s, c) = getnextstate(machine, s, c)]_vars

\* C20 witness: a handle call and an async_handle call have both made a
\* transition with its append, one of them dispatched to the callback, and
\* the table is the one constructed
C20_Witness ==
    /\ machine = FinalStetesFSM_init(args.transitions, args.states, args.final_states)
    /\ \E t, u \in Tasks :
        /\ tasks[t].op = "handle" /\ tasks[t].pc = "done" /\ tasks[t].added # <<>>
        /\ tasks[u].op = "async_handle" /\ tasks[u].pc = "done" /\ tasks[u].added # <<>>
        /\ tasks[u].cbk_args # <<>>

\* ============================================================ keyed store
\* the entities a per-entity store keeps a current state for
Entities == {"e1", "e2"}

\* a store keyed by entity, seeded with a State for every entity
KeyedStore_init(seed) == seed

\* get_state(entity_key, *event_args) of the keyed store: argv is the
\* positional arguments of the call
KeyedStore_get_state(ks, argv) ==
    IF Len(argv) = 0
    THEN [err |-> "TypeError", state |-> None]
    ELSE IF argv[1] \notin DOMAIN ks
    THEN [err |-> "KeyError", state |-> None]
    ELSE [err |-> "ok", state |-> ks[argv[1]]]

\* set_state(entity_key, state) of the keyed store: a call that does not
\* give both positional arguments is a TypeError and writes nothing
KeyedStore_set_state(ks, argv) ==
    IF Len(argv) # 2
    THEN [err |-> "TypeError", store |-> ks]
    ELSE [err |-> "ok", store |-> [ks EXCEPT ![argv[1]] = argv[2]]]

\* FSMHandler.handle(e) over a keyed store and no history: get_state is
\* given the arguments of the call, set_state is given new_state alone
KeyedHandle(m, ks, e, ec, tc, context) ==
    LET g == KeyedStore_get_state(ks, <<e>>)
        c1 == <<"get_state", "entering_condition">>
        c2 == c1 \o <<"action", "transition_condition">>
        c3 == c2 \o <<"getcontext", "getnextstate">>
        end(calls, argv, st, err) ==
            [cur |-> g.state, calls |-> calls, set_argv |-> argv, store |-> st, err |-> err]
    IN  IF g.err # "ok" THEN end(<<"get_state">>, <<>>, ks, g.err)
        ELSE IF ~ec THEN end(c1, <<>>, ks, "ok")
        ELSE IF ~tc THEN end(c2, <<>>, ks, "ok")
        ELSE LET n == getnextstate(m, g.state, context)
             IN  IF n.err # "ok"
                 THEN end(c3, <<>>, ks, n.err)
                 ELSE LET w == KeyedStore_set_state(ks, <<n.state>>)
                      IN  end(c3 \o <<"set_state">>, <<n.state>>, w.store, w.err)

\* a handler over the idle/awaiting/done table and a keyed store holding a
\* State of the table for every entity
InitKeyed ==
    \E seed \in [Entities -> StateNames] :
        /\ pc = "run"
        /\ args = [transitions |-> SomeTransitions(ScenarioEntries), states |-> StateNames,
                   final_states |-> NoneFinals]
        /\ machine = FSM_init(SomeTransitions(ScenarioEntries), StateNames)
        /\ handler = "FSMHandler"
        /\ start_state = None
        /\ store = None
        /\ history = NoHistory
        /\ last = NoLast
        /\ appended = <<>>
        /\ driven = [ok |-> TRUE, contexts |-> <<>>]
        /\ steps = 0
        /\ built = <<>>
        /\ tasks = NoTasks
        /\ writes = <<>>
        /\ kstore = KeyedStore_init(seed)
        /\ klast = NoKeyedLast

\* the variables the steps against the keyed store leave alone
keyedFrame == <<pc, args, machine, handler, start_state, store, history, last, appended,
                driven, built, tasks, writes>>

\* one event for entity e handled by FSMHandler.handle
KeyedStep(e, in) ==
    /\ steps < MaxSteps
    /\ LET r == KeyedHandle(machine, kstore, e, in.ec, in.tc, in.context)
       IN  /\ kstore' = r.store
           /\ klast' = [op |-> "handle", e |-> e, ec |-> in.ec, tc |-> in.tc,
                        context |-> in.context, cur |-> r.cur, before |-> kstore,
                        calls |-> r.calls, set_argv |-> r.set_argv, err |-> r.err]
    /\ steps' = steps + 1
    /\ UNCHANGED keyedFrame

\* the application itself sets the state of entity e in the store
KeyedSet(e, state) ==
    /\ steps < MaxSteps
    /\ LET w == KeyedStore_set_state(kstore, <<e, state>>)
       IN  /\ kstore' = w.store
           /\ klast' = [NoKeyedLast EXCEPT !.op = "set_state", !.e = e, !.before = kstore,
                                           !.calls = <<"set_state">>,
                                           !.set_argv = <<e, state>>, !.err = w.err]
    /\ steps' = steps + 1
    /\ UNCHANGED keyedFrame

NextKeyed ==
    \/ \E e \in Entities, in \in {i \in StepInputs : i.fail = "none"} : KeyedStep(e, in)
    \/ \E e \in Entities, s \in StateNames : KeyedSet(e, s)

SpecKeyed == InitKeyed /\ [][NextKeyed]_vars

\* C19: a transitioning step for entity e gives set_state the key e that
\* get_state was given, so that with a store keyed by entity the step sets
\* the current state of e to the looked-up state and leaves the current
\* state of every other entity unchanged.
C19_SetStateKeepsEntityKey ==
    (klast.op = "handle" /\ klast.ec /\ klast.tc
        /\ getnextstate(machine, klast.cur, klast.context).err = "ok") =>
            LET n == getnextstate(machine, klast.cur, klast.context)
            IN  /\ klast.set_argv = <<klast.e, n.state>>
                /\ klast.err = "ok"
                /\ kstore[klast.e] = n.state
                /\ \A o \in Entities \ {klast.e} : kstore[o] = klast.before[o]

====
